---- MODULE Spec2Model ----
(***************************************************************************)
(* Model of the SFMC asset-search server (src/sfmc-mcp-server.py): the     *)
(* SFMCClient class with its cached OAuth token, the module-level          *)
(* sfmc_client, and the tools initialize_sfmc_connection,                  *)
(* search_sfmc_assets, advanced_asset_search, get_asset_by_id and the      *)
(* connection_status resource.                                             *)
(*                                                                         *)
(* Encodings.  A Python Optional value is a sequence of length 0 or 1:     *)
(* None is <<>> and a value x is <<x>>.  A key looked up in a JSON object  *)
(* is encoded the same way (Missing / Present).  A Python dict is a        *)
(* function from its keys.  A string built by an f-string or by join is    *)
(* the sequence of its pieces.  An exception is the name of its class.     *)
(* Time is in seconds.                                                     *)
(***************************************************************************)
EXTENDS Integers, Sequences, FiniteSets, TLC

VARIABLES sfmc_client, now, last, threads

vars == <<sfmc_client, now, last, threads>>

---------------------------------------------------------------------------
(* Bounds of the model *)

MaxTime == 30

TickStep == 30

(* Program constants *)

DefaultExpiresIn == 3600

ExpiryBuffer == 60

DefaultPageSize == 50

MaxPageSize == 50

MinPageSize == 1

DefaultPage == 1

MinPage == 1

---------------------------------------------------------------------------
(* Optional values, JSON keys *)

None == <<>>

Some(x) == <<x>>

Missing == <<>>

Present(x) == <<x>>

\* Python truthiness of an Optional[str]: None and "" are falsy.
Truthy(opt) == opt # None /\ opt[1] # ""

\* dict.update
DictUpdate(d, u) ==
    [k \in (DOMAIN d) \cup (DOMAIN u) |-> IF k \in DOMAIN u THEN u[k] ELSE d[k]]

---------------------------------------------------------------------------
(* Exceptions *)

NoExc == ""

\* Subclasses of requests.exceptions.RequestException
RequestExceptions == {"ConnectionError", "HTTPError", "RequestsJSONDecodeError"}

\* Other subclasses of Exception the code can meet
OtherExceptions ==
    {"KeyError", "TypeError", "ValueError", "AttributeError",
     "ZeroDivisionError", "JSONDecodeError"}

IsRequestException(e) == e \in RequestExceptions

IsException(e) == e \in RequestExceptions \cup OtherExceptions

---------------------------------------------------------------------------
(* The environment: credentials and what the network answers *)

Credentials ==
    {[subdomain |-> "mcA", client_id |-> "idA", client_secret |-> "secA"],
     [subdomain |-> "mcB", client_id |-> "idB", client_secret |-> "secB"]}

ExpiresIn(n) == Present([numeric |-> TRUE, val |-> n])

\* An expires_in that is no number (a string, null)
ExpiresInBad == Present([numeric |-> FALSE, val |-> 0])

TokenBody(token, expires_in) ==
    [kind |-> "ok", access_token |-> Present(token), expires_in |-> expires_in]

\* Outcomes of POST /v2/token: a transport error, a non-2xx status, a body
\* that is not JSON, a JSON body that is no object, a JSON object without
\* access_token, and JSON objects with one.
TokenResponses ==
    {[kind |-> k, access_token |-> Missing, expires_in |-> Missing] :
        k \in {"transport", "http_error", "bad_json", "json_array", "ok"}}
    \cup
    {TokenBody("tokA", Missing), TokenBody("tokA", ExpiresIn(90)),
     TokenBody("tokA", ExpiresIn(60)), TokenBody("tokA", ExpiresInBad),
     TokenBody("tokB", ExpiresIn(90)), TokenBody("", ExpiresIn(90))}

---------------------------------------------------------------------------
(* class SFMCClient *)

SFMCClient(subdomain, client_id, client_secret) ==
    [subdomain     |-> subdomain,
     client_id     |-> client_id,
     client_secret |-> client_secret,
     access_token  |-> None,
     token_expiry  |-> None,
     base_url      |-> <<"https://", subdomain, ".rest.marketingcloudapis.com">>,
     \* history: the client_id the cached access_token was obtained with
     token_from    |-> None]

\* The dict a method returns
Success(token) == [success |-> TRUE, token |-> token, error |-> <<>>]

Failure(msg) == [success |-> FALSE, token |-> None, error |-> msg]

\* Mutant: a token is still taken as good at its expiry
TokenIsValid_AtExpiry(self, t) ==
    /\ Truthy(self.access_token)
    /\ self.token_expiry # None
    /\ t <= self.token_expiry[1]

\* The cached token is still good
TokenIsValid(self, t) ==
    /\ Truthy(self.access_token)
    /\ self.token_expiry # None
    /\ t < self.token_expiry[1]

\* The request sent to the auth endpoint
AuthRequest(self) ==
    [url  |-> <<"https://", self.subdomain, ".auth.marketingcloudapis.com/v2/token">>,
     json |-> [grant_type    |-> "client_credentials",
               client_id     |-> self.client_id,
               client_secret |-> self.client_secret]]

\* Mutant: the expiry is cached without the 60 second buffer
TokenExpiry_NoBuffer(t, expires_in) == t + expires_in

\* datetime.now() + timedelta(seconds=expires_in - 60)
TokenExpiry(t, expires_in) == t + expires_in - ExpiryBuffer

\* The token exchange: the try body of get_access_token after the cache
\* check.  Gives the client as the body left it, the exception raised (or
\* NoExc) and the value returned.
TokenExchange(self, t, resp) ==
    CASE resp.kind = "transport" ->
            [self |-> self, exc |-> "ConnectionError", ret |-> Failure(<<>>)]
      [] resp.kind = "http_error" ->
            [self |-> self, exc |-> "HTTPError", ret |-> Failure(<<>>)]
      [] resp.kind = "bad_json" ->
            [self |-> self, exc |-> "RequestsJSONDecodeError", ret |-> Failure(<<>>)]
      [] resp.kind = "json_array" ->
            [self |-> self, exc |-> "TypeError", ret |-> Failure(<<>>)]
      [] resp.kind = "ok" /\ resp.access_token = Missing ->
            [self |-> self, exc |-> "KeyError", ret |-> Failure(<<>>)]
      [] resp.kind = "ok" /\ resp.access_token # Missing ->
            LET stored == [self EXCEPT !.access_token = Some(resp.access_token[1]),
                                       !.token_from = Some(self.client_id)]
                expires_in == IF resp.expires_in = Missing
                              THEN [numeric |-> TRUE, val |-> DefaultExpiresIn]
                              ELSE resp.expires_in[1]
            IN  IF ~expires_in.numeric
                THEN [self |-> stored, exc |-> "TypeError", ret |-> Failure(<<>>)]
                ELSE [self |-> [stored EXCEPT !.token_expiry =
                                    Some(TokenExpiry(t, expires_in.val))],
                      exc  |-> NoExc,
                      ret  |-> Success(stored.access_token)]

\* Mutant: only "except requests.exceptions.RequestException"
AuthExcept_RequestsOnly(body) ==
    IF body.exc = NoExc
    THEN [self |-> body.self, exc |-> NoExc, ret |-> body.ret]
    ELSE IF IsRequestException(body.exc)
    THEN [self |-> body.self, exc |-> NoExc,
          ret |-> Failure(<<"Authentication failed: ", body.exc>>)]
    ELSE body

\* Mutant: a failed exchange empties the cache
AuthExcept_ClearsCache(body) ==
    IF body.exc = NoExc
    THEN [self |-> body.self, exc |-> NoExc, ret |-> body.ret]
    ELSE [self |-> [body.self EXCEPT !.access_token = None, !.token_expiry = None,
                                     !.token_from = None],
          exc |-> NoExc,
          ret |-> Failure(<<IF IsRequestException(body.exc)
                            THEN "Authentication failed: "
                            ELSE "Unexpected authentication error: ", body.exc>>)]

\* The except clauses of get_access_token
AuthExcept(body) ==
    IF body.exc = NoExc
    THEN [self |-> body.self, exc |-> NoExc, ret |-> body.ret]
    ELSE IF IsRequestException(body.exc)
    THEN [self |-> body.self, exc |-> NoExc,
          ret |-> Failure(<<"Authentication failed: ", body.exc>>)]
    ELSE IF IsException(body.exc)
    THEN [self |-> body.self, exc |-> NoExc,
          ret |-> Failure(<<"Unexpected authentication error: ", body.exc>>)]
    ELSE body

\* Which conjunct of the cache check sent the call to the auth endpoint
WhyExchange(self, t) ==
    IF ~Truthy(self.access_token) THEN "no_token"
    ELSE IF self.token_expiry = None THEN "no_expiry"
    ELSE "expired"

\* Mutant: a failed exchange is tried a second time
get_access_token_Retry(self, t, resp) ==
    IF TokenIsValid(self, t)
    THEN [self |-> self, exc |-> NoExc, ret |-> Success(self.access_token),
          exch |-> <<>>]
    ELSE LET r == AuthExcept(TokenExchange(self, t, resp))
             sent == [request  |-> AuthRequest(self),
                      response |-> resp,
                      why      |-> WhyExchange(self, t)]
         IN  [self |-> r.self, exc |-> r.exc, ret |-> r.ret,
              exch |-> IF r.ret.success THEN <<sent>> ELSE <<sent, sent>>]

\* SFMCClient.get_access_token.  exch lists the token exchanges it made: the
\* request, the answer, and why the cached token was not used.
get_access_token(self, t, resp) ==
    IF TokenIsValid(self, t)
    THEN [self |-> self, exc |-> NoExc, ret |-> Success(self.access_token),
          exch |-> <<>>]
    ELSE LET r == AuthExcept(TokenExchange(self, t, resp))
         IN  [self |-> r.self, exc |-> r.exc, ret |-> r.ret,
              exch |-> <<[request  |-> AuthRequest(self),
                          response |-> resp,
                          why      |-> WhyExchange(self, t)]>>]

---------------------------------------------------------------------------
(* What the data endpoints answer *)

JNull == <<>>

JVal(x) == <<x>>

\* A nested JSON object with a name (assetType, createdBy, ...)
Named(n) == Present(JVal([name |-> Present(JVal(n))]))

AssetFull ==
    [id             |-> Present(JVal(101)),
     name           |-> Present(JVal("newsletter")),
     assetType      |-> Named("email"),
     createdDate    |-> Present(JVal("2024-01-01")),
     modifiedDate   |-> Present(JVal("2024-02-01")),
     createdBy      |-> Named("ann"),
     modifiedBy     |-> Named("bob"),
     category       |-> Named("folder"),
     status         |-> Named("Draft"),
     fileProperties |-> Present(JVal([fileSize |-> Present(JVal(2048))]))]

\* Every key absent
AssetSparse ==
    [id             |-> Present(JVal(102)),
     name           |-> Missing,
     assetType      |-> Missing,
     createdDate    |-> Missing,
     modifiedDate   |-> Missing,
     createdBy      |-> Missing,
     modifiedBy     |-> Missing,
     category       |-> Missing,
     status         |-> Missing,
     fileProperties |-> Missing]

\* Nested objects present without their inner key, a flat field null
AssetHollow ==
    [AssetFull EXCEPT !.id = Present(JVal(103)),
                      !.name = Present(JNull),
                      !.assetType = Present(JVal([name |-> Missing])),
                      !.fileProperties = Present(JVal([fileSize |-> Missing]))]

\* A nested object that is JSON null
AssetNullNested ==
    [AssetFull EXCEPT !.id = Present(JVal(104)), !.category = Present(JNull)]

SearchBody(count, pageSize, page, items) ==
    [count |-> count, pageSize |-> pageSize, page |-> page, items |-> items]

SearchBodies ==
    {SearchBody(Present(101), Present(50), Present(1), Present(<<AssetFull, AssetSparse>>)),
     SearchBody(Present(5), Present(0), Present(1), Present(<<AssetFull>>)),
     SearchBody(Present(1), Present(50), Present(1), Present(<<AssetSparse, AssetNullNested>>))}

\* Outcomes of a data request (search, query, detail)
DataResponses ==
    {[kind |-> k, body |-> SearchBody(Missing, Missing, Missing, Missing)] :
        k \in {"transport", "http_error", "bad_json", "json_array"}}
    \cup {[kind |-> "ok", body |-> b] : b \in SearchBodies}

\* requests.get/post, raise_for_status and response.json() on a data request
HttpJson(resp) ==
    CASE resp.kind = "transport" -> [exc |-> "ConnectionError", json |-> resp.body]
      [] resp.kind = "http_error" -> [exc |-> "HTTPError", json |-> resp.body]
      [] resp.kind = "bad_json" -> [exc |-> "RequestsJSONDecodeError", json |-> resp.body]
      [] OTHER -> [exc |-> NoExc, json |-> resp.body]

\* search_results.get(key, default) on the decoded body
BodyGet(field, default) == IF field = Missing THEN default ELSE field[1]

---------------------------------------------------------------------------
(* SFMCClient.search_assets and SFMCClient.advanced_asset_search *)

\* Mutant: the failed token request is not noticed
TokenFailed_Ignored(token_result) == FALSE

\* "if not token_result['success']:" after the call of get_access_token
TokenFailed(token_result) == ~token_result.success

\* A data request with the answer it got
Sent(request, response) == <<[request |-> request, response |-> response]>>

DefaultParams ==
    [k \in {"$pagesize", "$page", "$orderBy"} |->
        CASE k = "$pagesize" -> DefaultPageSize
          [] k = "$page" -> DefaultPage
          [] k = "$orderBy" -> "modifiedDate desc"]

\* The Authorization header and (history) whose token it carries
Bearer(self) ==
    [Authorization |-> <<"Bearer ", self.access_token>>,
     token_from    |-> self.token_from]

\* What the except clauses of a client method return
MethodExcept(exc, what, unexpected) ==
    IF IsRequestException(exc) THEN Failure(<<what, exc>>)
    ELSE Failure(<<unexpected, exc>>)

\* The query parameters sent: the defaults, overridden by the caller's
RequestParams(search_params) ==
    IF DOMAIN search_params # {}
    THEN DictUpdate(DefaultParams, search_params)
    ELSE DefaultParams

SFMCClient_search_assets(self, t, search_params, tokResp, dataResp) ==
    LET tok == get_access_token(self, t, tokResp)
        me  == tok.self
        default_params == RequestParams(search_params)
        request == [method  |-> "GET",
                    url     |-> me.base_url \o <<"/asset/v1/content/assets">>,
                    headers |-> Bearer(me),
                    data    |-> default_params]
        http == HttpJson(dataResp)
        sr   == http.json
    IN  IF tok.exc # NoExc
        THEN [self |-> me, exch |-> tok.exch, reqs |-> <<>>,
              ret |-> MethodExcept(tok.exc, "Asset search failed: ", "Unexpected search error: ")]
        ELSE IF TokenFailed(tok.ret)
        THEN [self |-> me, exch |-> tok.exch, reqs |-> <<>>, ret |-> tok.ret]
        ELSE IF http.exc # NoExc
        THEN [self |-> me, exch |-> tok.exch, reqs |-> Sent(request, dataResp),
              ret |-> MethodExcept(http.exc, "Asset search failed: ", "Unexpected search error: ")]
        ELSE IF dataResp.kind = "json_array"
        THEN [self |-> me, exch |-> tok.exch, reqs |-> Sent(request, dataResp),
              ret |-> MethodExcept("AttributeError", "Asset search failed: ", "Unexpected search error: ")]
        ELSE [self |-> me, exch |-> tok.exch, reqs |-> Sent(request, dataResp),
              ret |-> [success     |-> TRUE,
                       results     |-> sr,
                       total_count |-> BodyGet(sr.count, 0),
                       page_size   |-> BodyGet(sr.pageSize, DefaultPageSize),
                       page        |-> BodyGet(sr.page, DefaultPage)]]

DefaultQuery ==
    [k \in {"page", "query", "sort"} |->
        CASE k = "page" -> [page |-> DefaultPage, pageSize |-> DefaultPageSize]
          [] k = "query" -> [property |-> "name", simpleOperator |-> "contains", value |-> ""]
          [] k = "sort" -> <<[property |-> "modifiedDate", direction |-> "DESC"]>>]

\* json.loads on the query strings a caller may pass: the decoded value, or
\* JSONDecodeError with the parser's message.  A decoded value carries its
\* JSON type, its Python truthiness and, for an object, its members.
Decoded(type, truthy, members) ==
    [exc |-> NoExc, msg |-> "", type |-> type, truthy |-> truthy, members |-> members]

DecodeError(msg) ==
    [exc |-> "JSONDecodeError", msg |-> msg, type |-> "", truthy |-> FALSE,
     members |-> <<>>]

EmptyObject == [k \in {} |-> 0]

QueryStrings ==
    {"not json",
     "",
     "{\"page\": ",
     "{}",
     "null",
     "[1]",
     "{\"page\":{\"page\":2,\"pageSize\":10}}",
     "{\"page\":{\"page\":3}}",
     "{\"query\":{\"property\":\"name\",\"simpleOperator\":\"contains\",\"value\":\"newsletter\"},\"sort\":[]}",
     "{\"fields\":[\"id\"]}"}

json_loads(s) ==
    CASE s = "not json" -> DecodeError("Expecting value: line 1 column 1 (char 0)")
      [] s = "" -> DecodeError("Expecting value: line 1 column 1 (char 0)")
      [] s = "{\"page\": " -> DecodeError("Expecting value: line 1 column 10 (char 9)")
      [] s = "{}" -> Decoded("object", FALSE, EmptyObject)
      [] s = "null" -> Decoded("null", FALSE, EmptyObject)
      [] s = "[1]" -> Decoded("array", TRUE, EmptyObject)
      [] s = "{\"page\":{\"page\":2,\"pageSize\":10}}" ->
            Decoded("object", TRUE,
                    [k \in {"page"} |-> [page |-> 2, pageSize |-> 10]])
      [] s = "{\"page\":{\"page\":3}}" ->
            Decoded("object", TRUE, [k \in {"page"} |-> [page |-> 3]])
      [] s = "{\"query\":{\"property\":\"name\",\"simpleOperator\":\"contains\",\"value\":\"newsletter\"},\"sort\":[]}" ->
            Decoded("object", TRUE,
                    [k \in {"query", "sort"} |->
                        IF k = "query"
                        THEN [property |-> "name", simpleOperator |-> "contains",
                              value |-> "newsletter"]
                        ELSE <<>>])
      [] s = "{\"fields\":[\"id\"]}" ->
            Decoded("object", TRUE, [k \in {"fields"} |-> <<"id">>])

\* Mutant: the caller's page object is merged into the default page object
MergeQuery_Deep(query_body) ==
    IF ~query_body.truthy THEN [exc |-> NoExc, query |-> DefaultQuery]
    ELSE IF query_body.type = "object"
    THEN [exc |-> NoExc,
          query |-> LET shallow == DictUpdate(DefaultQuery, query_body.members)
                    IN  IF "page" \in DOMAIN query_body.members
                        THEN [shallow EXCEPT !["page"] =
                                 DictUpdate(DefaultQuery["page"], query_body.members["page"])]
                        ELSE shallow]
    ELSE [exc |-> "TypeError", query |-> DefaultQuery]

\* The merge of the caller's query into the default query: the merged body,
\* or the exception dict.update raises on a value that is no mapping.
MergeQuery(query_body) ==
    IF ~query_body.truthy THEN [exc |-> NoExc, query |-> DefaultQuery]
    ELSE IF query_body.type = "object"
    THEN [exc |-> NoExc, query |-> DictUpdate(DefaultQuery, query_body.members)]
    ELSE [exc |-> "TypeError", query |-> DefaultQuery]

SFMCClient_advanced_asset_search(self, t, query_body, tokResp, dataResp) ==
    LET tok == get_access_token(self, t, tokResp)
        me  == tok.self
        merged == MergeQuery(query_body)
        default_query == merged.query
        request == [method  |-> "POST",
                    url     |-> me.base_url \o <<"/asset/v1/content/assets/query">>,
                    headers |-> Bearer(me),
                    data    |-> default_query]
        http == HttpJson(dataResp)
        sr   == http.json
        what == "Advanced asset search failed: "
        unexpected == "Unexpected advanced search error: "
    IN  IF tok.exc # NoExc
        THEN [self |-> me, exch |-> tok.exch, reqs |-> <<>>,
              ret |-> MethodExcept(tok.exc, what, unexpected)]
        ELSE IF TokenFailed(tok.ret)
        THEN [self |-> me, exch |-> tok.exch, reqs |-> <<>>, ret |-> tok.ret]
        ELSE IF merged.exc # NoExc
        THEN [self |-> me, exch |-> tok.exch, reqs |-> <<>>,
              ret |-> MethodExcept(merged.exc, what, unexpected)]
        ELSE IF http.exc # NoExc
        THEN [self |-> me, exch |-> tok.exch, reqs |-> Sent(request, dataResp),
              ret |-> MethodExcept(http.exc, what, unexpected)]
        ELSE IF dataResp.kind = "json_array"
        THEN [self |-> me, exch |-> tok.exch, reqs |-> Sent(request, dataResp),
              ret |-> MethodExcept("AttributeError", what, unexpected)]
        ELSE [self |-> me, exch |-> tok.exch, reqs |-> Sent(request, dataResp),
              ret |-> [success     |-> TRUE,
                       results     |-> sr,
                       total_count |-> BodyGet(sr.count, 0),
                       page_size   |-> BodyGet(sr.pageSize, DefaultPageSize),
                       page        |-> BodyGet(sr.page, DefaultPage),
                       query_used  |-> default_query]]

---------------------------------------------------------------------------
(* The tools: what a tool returns *)

Text(pieces) == [kind |-> "text", text |-> pieces, value |-> <<>>]

Json(value) == [kind |-> "json", text |-> <<>>, value |-> <<value>>]

\* The dict a client method returns, when the method is what is called
Dict(value) == [kind |-> "dict", text |-> <<>>, value |-> <<value>>]

\* An exception that leaves the operation
Raised(exc) == [kind |-> "raised", text |-> <<exc>>, value |-> <<>>]

NotInitialized ==
    Text(<<"[x] SFMC connection not initialized. Please call initialize_sfmc_connection first.">>)

\* "except Exception as e: return f'...{str(e)}'" of a tool
ToolExcept(prefix, exc) ==
    IF IsException(exc) THEN Text(<<prefix, exc>>) ELSE Raised(exc)

---------------------------------------------------------------------------
(* search_sfmc_assets: the search parameters *)

Max(a, b) == IF a >= b THEN a ELSE b

Min(a, b) == IF a <= b THEN a ELSE b

Digit(d) ==
    CASE d = 0 -> "0" [] d = 1 -> "1" [] d = 2 -> "2" [] d = 3 -> "3" [] d = 4 -> "4"
      [] d = 5 -> "5" [] d = 6 -> "6" [] d = 7 -> "7" [] d = 8 -> "8" [] d = 9 -> "9"

RECURSIVE NatToStr(_)
NatToStr(n) == IF n < 10 THEN <<Digit(n)>> ELSE NatToStr(n \div 10) \o <<Digit(n % 10)>>

\* str(n) of a Python int, as the sequence of its characters
IntToStr(n) == IF n < 0 THEN <<"-">> \o NatToStr(0 - n) ELSE NatToStr(n)

\* sep.join(parts), each part a sequence of pieces
RECURSIVE Join(_, _)
Join(sep, parts) ==
    IF parts = <<>> THEN <<>>
    ELSE IF Len(parts) = 1 THEN parts[1]
    ELSE parts[1] \o <<sep>> \o Join(sep, Tail(parts))

\* The filters list: one clause for each filter that is given
Filters(asset_name, asset_type, category_id) ==
    (IF asset_name # "" THEN << <<"name like '", asset_name, "'">> >> ELSE <<>>)
    \o (IF asset_type # "" THEN << <<"assetType.name eq '", asset_type, "'">> >> ELSE <<>>)
    \o (IF category_id # None /\ category_id[1] # 0
        THEN << <<"category.id eq ">> \o IntToStr(category_id[1]) >> ELSE <<>>)

\* Mutant: the page size is capped but has no floor
ClampPageSize_NoFloor(page_size) == Min(page_size, MaxPageSize)

\* min(max(page_size, 1), 50)
ClampPageSize(page_size) == Min(Max(page_size, MinPageSize), MaxPageSize)

\* max(page_number, 1)
ClampPage(page_number) == Max(page_number, MinPage)

search_params(asset_name, asset_type, page_size, page_number, category_id) ==
    LET filters == Filters(asset_name, asset_type, category_id)
        base == [k \in {"$pagesize", "$page"} |->
                    IF k = "$pagesize"
                    THEN ClampPageSize(page_size)
                    ELSE ClampPage(page_number)]
    IN  IF filters # <<>>
        THEN DictUpdate(base, [k \in {"$filter"} |-> Join(" and ", filters)])
        ELSE base

---------------------------------------------------------------------------
(* search_sfmc_assets: the formatted results *)

\* asset.get(key)
AssetGet(field) == IF field = Missing THEN None ELSE field[1]

\* asset.get(key, {}).get(inner): AttributeError when the value is null
NestedGet(field, inner) ==
    IF field = Missing THEN [exc |-> NoExc, val |-> None]
    ELSE IF field[1] = JNull THEN [exc |-> "AttributeError", val |-> None]
    ELSE [exc |-> NoExc, val |-> AssetGet(field[1][1][inner])]

AssetInfo(asset) ==
    LET asset_type  == NestedGet(asset.assetType, "name")
        created_by  == NestedGet(asset.createdBy, "name")
        modified_by == NestedGet(asset.modifiedBy, "name")
        category    == NestedGet(asset.category, "name")
        status      == NestedGet(asset.status, "name")
        file_size   == NestedGet(asset.fileProperties, "fileSize")
        nested      == <<asset_type, created_by, modified_by, category, status, file_size>>
    IN  [exc |-> IF \E i \in 1..6 : nested[i].exc # NoExc THEN "AttributeError" ELSE NoExc,
         info |-> [id            |-> AssetGet(asset.id),
                   name          |-> AssetGet(asset.name),
                   asset_type    |-> asset_type.val,
                   created_date  |-> AssetGet(asset.createdDate),
                   modified_date |-> AssetGet(asset.modifiedDate),
                   created_by    |-> created_by.val,
                   modified_by   |-> modified_by.val,
                   category      |-> category.val,
                   status        |-> status.val,
                   file_size     |-> file_size.val]]

\* Mutant: the page count is rounded down
TotalPages_Floor(total_count, page_size) ==
    IF page_size = 0 THEN [exc |-> "ZeroDivisionError", val |-> 0]
    ELSE [exc |-> NoExc, val |-> total_count \div page_size]

\* (total_count + page_size - 1) // page_size
TotalPages(total_count, page_size) ==
    IF page_size = 0 THEN [exc |-> "ZeroDivisionError", val |-> 0]
    ELSE [exc |-> NoExc, val |-> (total_count + page_size - 1) \div page_size]

\* The body of "if result['success']:" in search_sfmc_assets
FormatResults(result) ==
    LET assets == BodyGet(result.results.items, <<>>)
        infos  == [i \in 1..Len(assets) |-> AssetInfo(assets[i])]
        total_pages == TotalPages(result.total_count, result.page_size)
    IN  IF total_pages.exc # NoExc THEN [exc |-> total_pages.exc, value |-> <<>>]
        ELSE IF \E i \in 1..Len(assets) : infos[i].exc # NoExc
        THEN [exc |-> "AttributeError", value |-> <<>>]
        ELSE [exc |-> NoExc,
              value |-> [search_summary |->
                            [total_found |-> result.total_count,
                             page        |-> result.page,
                             page_size   |-> result.page_size,
                             total_pages |-> total_pages.val],
                         assets |-> [i \in 1..Len(assets) |-> infos[i].info]]]

---------------------------------------------------------------------------
(* The tools.  Each gives the module-level sfmc_client it leaves, what it  *)
(* returns, the token exchanges (exch) and the data requests (reqs) made.  *)

\* Mutant: the tools do not look whether there is a client
NoClient_Unchecked(client) == FALSE

\* "if not sfmc_client:"
NoClient(client) == client = None

\* Mutant: a client that exists is given the new credentials and kept,
\* instead of being replaced by a new one
initialize_sfmc_connection_Reuse(creds, t, tokResp) ==
    LET created == IF sfmc_client = None
                   THEN SFMCClient(creds.subdomain, creds.client_id, creds.client_secret)
                   ELSE [sfmc_client[1] EXCEPT
                            !.subdomain = creds.subdomain,
                            !.client_id = creds.client_id,
                            !.client_secret = creds.client_secret,
                            !.base_url = <<"https://", creds.subdomain,
                                           ".rest.marketingcloudapis.com">>]
        auth_result == get_access_token(created, t, tokResp)
    IN  [client |-> Some(auth_result.self),
         exch   |-> auth_result.exch,
         reqs   |-> <<>>,
         ret    |-> IF auth_result.ret.success
                    THEN Text(<<"[ok] Successfully connected to SFMC instance: ",
                                creds.subdomain>>)
                    ELSE Text(<<"[x] Authentication failed: ">> \o auth_result.ret.error)]

\* Mutant: the new client becomes the global one only once it has
\* authenticated
initialize_sfmc_connection_CommitOnSuccess(creds, t, tokResp) ==
    LET created == SFMCClient(creds.subdomain, creds.client_id, creds.client_secret)
        auth_result == get_access_token(created, t, tokResp)
    IN  [client |-> IF auth_result.ret.success THEN Some(auth_result.self) ELSE sfmc_client,
         exch   |-> auth_result.exch,
         reqs   |-> <<>>,
         ret    |-> IF auth_result.ret.success
                    THEN Text(<<"[ok] Successfully connected to SFMC instance: ",
                                creds.subdomain>>)
                    ELSE Text(<<"[x] Authentication failed: ">> \o auth_result.ret.error)]

initialize_sfmc_connection(creds, t, tokResp) ==
    LET created == SFMCClient(creds.subdomain, creds.client_id, creds.client_secret)
        auth_result == get_access_token(created, t, tokResp)
    IN  [client |-> Some(auth_result.self),
         exch   |-> auth_result.exch,
         reqs   |-> <<>>,
         ret    |-> IF auth_result.exc # NoExc
                    THEN ToolExcept("[x] Connection initialization failed: ", auth_result.exc)
                    ELSE IF auth_result.ret.success
                    THEN Text(<<"[ok] Successfully connected to SFMC instance: ",
                                creds.subdomain>>)
                    ELSE Text(<<"[x] Authentication failed: ">> \o auth_result.ret.error)]

search_sfmc_assets(client, t, in, tokResp, dataResp) ==
    IF NoClient(client)
    THEN [client |-> client, exch |-> <<>>, reqs |-> <<>>, ret |-> NotInitialized]
    ELSE IF client = None   \* a method called on None, inside the try
    THEN [client |-> client, exch |-> <<>>, reqs |-> <<>>,
          ret |-> ToolExcept("[x] Asset search error: ", "AttributeError")]
    ELSE LET params == search_params(in.asset_name, in.asset_type, in.page_size,
                                     in.page_number, in.category_id)
             r == SFMCClient_search_assets(client[1], t, params, tokResp, dataResp)
             formatted == FormatResults(r.ret)
         IN  [client |-> Some(r.self), exch |-> r.exch, reqs |-> r.reqs,
              ret |-> IF r.ret.success
                      THEN IF formatted.exc # NoExc
                           THEN ToolExcept("[x] Asset search error: ", formatted.exc)
                           ELSE Json(formatted.value)
                      ELSE Text(<<"[x] Search failed: ">> \o r.ret.error)]

\* Mutant: the token is asked for before the query is parsed
advanced_asset_search_TokenFirst(client, t, query_json, tokResp, dataResp) ==
    IF client = None
    THEN [client |-> client, exch |-> <<>>, reqs |-> <<>>, ret |-> NotInitialized]
    ELSE LET query_body == json_loads(query_json)
             tok == get_access_token(client[1], t, tokResp)
             r == SFMCClient_advanced_asset_search(client[1], t, query_body,
                                                   tokResp, dataResp)
         IN  IF query_body.exc # NoExc
             THEN [client |-> Some(tok.self), exch |-> tok.exch, reqs |-> <<>>,
                   ret |-> Text(<<"[x] Invalid JSON query: ", query_body.msg>>)]
             ELSE [client |-> Some(r.self), exch |-> r.exch, reqs |-> r.reqs,
                   ret |-> IF r.ret.success
                           THEN Json(r.ret)
                           ELSE Text(<<"[x] Advanced search failed: ">> \o r.ret.error)]

advanced_asset_search(client, t, query_json, tokResp, dataResp) ==
    IF NoClient(client)
    THEN [client |-> client, exch |-> <<>>, reqs |-> <<>>, ret |-> NotInitialized]
    ELSE IF client = None   \* a method called on None, inside the try
    THEN [client |-> client, exch |-> <<>>, reqs |-> <<>>,
          ret |-> IF json_loads(query_json).exc = "JSONDecodeError"
                  THEN Text(<<"[x] Invalid JSON query: ", json_loads(query_json).msg>>)
                  ELSE ToolExcept("[x] Advanced search error: ", "AttributeError")]
    ELSE LET query_body == json_loads(query_json)
             r == SFMCClient_advanced_asset_search(client[1], t, query_body,
                                                   tokResp, dataResp)
         IN  IF query_body.exc # NoExc
             THEN [client |-> client, exch |-> <<>>, reqs |-> <<>>,
                   ret |-> IF query_body.exc = "JSONDecodeError"
                           THEN Text(<<"[x] Invalid JSON query: ", query_body.msg>>)
                           ELSE ToolExcept("[x] Advanced search error: ", query_body.exc)]
             ELSE [client |-> Some(r.self), exch |-> r.exch, reqs |-> r.reqs,
                   ret |-> IF r.ret.success
                           THEN Json(r.ret)
                           ELSE Text(<<"[x] Advanced search failed: ">> \o r.ret.error)]

get_asset_by_id(client, t, asset_id, tokResp, dataResp) ==
    IF NoClient(client)
    THEN [client |-> client, exch |-> <<>>, reqs |-> <<>>, ret |-> NotInitialized]
    ELSE IF client = None   \* a method called on None, inside the try
    THEN [client |-> client, exch |-> <<>>, reqs |-> <<>>,
          ret |-> ToolExcept("[x] Asset retrieval error: ", "AttributeError")]
    ELSE LET token_result == get_access_token(client[1], t, tokResp)
             me == token_result.self
             request == [method  |-> "GET",
                         url     |-> me.base_url \o <<"/asset/v1/content/assets/", asset_id>>,
                         headers |-> Bearer(me),
                         data    |-> <<>>]
             http == HttpJson(dataResp)
         IN  IF token_result.exc # NoExc
             THEN [client |-> Some(me), exch |-> token_result.exch, reqs |-> <<>>,
                   ret |-> IF IsRequestException(token_result.exc)
                           THEN Text(<<"[x] Failed to retrieve asset: ", token_result.exc>>)
                           ELSE ToolExcept("[x] Asset retrieval error: ", token_result.exc)]
             ELSE IF TokenFailed(token_result.ret)
             THEN [client |-> Some(me), exch |-> token_result.exch, reqs |-> <<>>,
                   ret |-> Text(<<"[x] Authentication failed: ">> \o token_result.ret.error)]
             ELSE [client |-> Some(me), exch |-> token_result.exch, reqs |-> Sent(request, dataResp),
                   ret |-> IF http.exc # NoExc
                           THEN Text(<<"[x] Failed to retrieve asset: ", http.exc>>)
                           ELSE Json([kind |-> dataResp.kind, body |-> http.json])]

\* Mutant: the status is read from the cache, no token is asked for
connection_status_PureRead(client, t, tokResp) ==
    IF client = None
    THEN [client |-> client, exch |-> <<>>, reqs |-> <<>>,
          ret |-> Text(<<"[x] No SFMC connection established">>)]
    ELSE LET me == client[1]
             valid == TokenIsValid(me, t)
         IN  [client |-> client, exch |-> <<>>, reqs |-> <<>>,
              ret |-> Json([connection_status |-> IF valid THEN "[ok] Connected"
                                                  ELSE "[x] Authentication Failed",
                            subdomain    |-> me.subdomain,
                            base_url     |-> me.base_url,
                            token_valid  |-> valid,
                            token_expiry |-> IF valid THEN me.token_expiry ELSE None,
                            error        |-> <<>>])]

connection_status(client, t, tokResp) ==
    IF NoClient(client)
    THEN [client |-> client, exch |-> <<>>, reqs |-> <<>>,
          ret |-> Text(<<"[x] No SFMC connection established">>)]
    ELSE IF client = None   \* a method called on None, inside the try
    THEN [client |-> client, exch |-> <<>>, reqs |-> <<>>,
          ret |-> ToolExcept("[x] Status check failed: ", "AttributeError")]
    ELSE LET token_result == get_access_token(client[1], t, tokResp)
             me == token_result.self
         IN  [client |-> Some(me), exch |-> token_result.exch, reqs |-> <<>>,
              ret |-> IF token_result.exc # NoExc
                      THEN ToolExcept("[x] Status check failed: ", token_result.exc)
                      ELSE IF token_result.ret.success
                      THEN Json([connection_status |-> "[ok] Connected",
                                 subdomain    |-> me.subdomain,
                                 base_url     |-> me.base_url,
                                 token_valid  |-> TRUE,
                                 token_expiry |-> me.token_expiry,
                                 error        |-> <<>>])
                      ELSE Json([connection_status |-> "[x] Authentication Failed",
                                 subdomain    |-> me.subdomain,
                                 base_url     |-> me.base_url,
                                 token_valid  |-> FALSE,
                                 token_expiry |-> None,
                                 error        |-> token_result.ret.error])]

---------------------------------------------------------------------------
(* The state machine: one caller, one operation at a time *)

SearchInputs ==
    {[asset_name |-> "x", asset_type |-> "y", page_size |-> 999, page_number |-> 0,
      category_id |-> Some(7)]}

AssetIds == {"12345"}

CallerQueries == {"not json", "[1]", "{\"page\":{\"page\":3}}"}

\* The answers the auth endpoint may give to a call: any, when the call makes
\* an exchange; one that is never read, when it makes none.
NoAuthAnswer == [kind |-> "transport", access_token |-> Missing, expires_in |-> Missing]

AuthAnswers(client, t) ==
    IF client = None \/ TokenIsValid(client[1], t) THEN {NoAuthAnswer} ELSE TokenResponses

\* The answers a data endpoint may give: any, when the call sends the request
\* (sent says whether it does); one that is never read, when it sends none.
NoDataAnswer == [kind |-> "transport", body |-> SearchBody(Missing, Missing, Missing, Missing)]

DataAnswers(sent) == IF sent THEN DataResponses ELSE {NoDataAnswer}

\* What the last operation did: its name and input, what it returned, the
\* token exchanges and the data requests it sent.
Called(op, input, r) ==
    [op |-> op, input |-> input, ret |-> r.ret, exch |-> r.exch, reqs |-> r.reqs]

\* The callers that may be inside get_access_token at once
Callers == {"c1", "c2"}

\* A caller that is not inside get_access_token.  pc is its position, saw the
\* cache it read at the check, resp the answer its POST got, order the rank
\* of its POST among the POSTs answered, holds whether the cached token is
\* the one it stored.
Outside ==
    [pc |-> "idle", saw |-> <<>>, resp |-> NoAuthAnswer, order |-> 0, holds |-> FALSE]

NoThreads == [c \in Callers |-> Outside]

Init ==
    /\ sfmc_client = None
    /\ now = 0
    /\ threads = NoThreads
    /\ last = [op |-> "none", input |-> <<>>, ret |-> Text(<<>>), exch |-> <<>>,
               reqs |-> <<>>]

\* Time passes
Tick ==
    /\ now + TickStep <= MaxTime
    /\ now' = now + TickStep
    /\ UNCHANGED <<sfmc_client, last, threads>>

\* A direct call of get_access_token on the active client
GetToken ==
    /\ sfmc_client # None
    /\ \E tokResp \in AuthAnswers(sfmc_client, now) :
          LET r == get_access_token(sfmc_client[1], now, tokResp)
          IN  /\ sfmc_client' = Some(r.self)
              /\ last' = [op |-> "get_access_token", input |-> <<>>,
                          ret |-> IF r.exc # NoExc THEN Raised(r.exc) ELSE Dict(r.ret),
                          exch |-> r.exch, reqs |-> <<>>]
    /\ UNCHANGED <<now, threads>>

InitializeConnection ==
    /\ \E creds \in Credentials, tokResp \in TokenResponses :
          LET r == initialize_sfmc_connection(creds, now, tokResp)
          IN  /\ sfmc_client' = r.client
              \* replaced (history): the sfmc_client the assignment overwrote
              /\ last' = [op |-> "initialize_sfmc_connection", input |-> creds,
                          ret |-> r.ret, exch |-> r.exch, reqs |-> r.reqs,
                          replaced |-> sfmc_client]
    /\ UNCHANGED <<now, threads>>

SearchAssets ==
    /\ \E in \in SearchInputs, tokResp \in AuthAnswers(sfmc_client, now) :
          LET sent == search_sfmc_assets(sfmc_client, now, in, tokResp, NoDataAnswer).reqs # <<>>
          IN  \E dataResp \in DataAnswers(sent) :
                 LET r == search_sfmc_assets(sfmc_client, now, in, tokResp, dataResp)
                 IN  /\ sfmc_client' = r.client
                     /\ last' = Called("search_sfmc_assets", in, r)
    /\ UNCHANGED <<now, threads>>

AdvancedSearch ==
    /\ \E q \in CallerQueries, tokResp \in AuthAnswers(sfmc_client, now) :
          LET sent == advanced_asset_search(sfmc_client, now, q, tokResp, NoDataAnswer).reqs # <<>>
          IN  \E dataResp \in DataAnswers(sent) :
                 LET r == advanced_asset_search(sfmc_client, now, q, tokResp, dataResp)
                 IN  /\ sfmc_client' = r.client
                     /\ last' = Called("advanced_asset_search", q, r)
    /\ UNCHANGED <<now, threads>>

GetAssetById ==
    /\ \E id \in AssetIds, tokResp \in AuthAnswers(sfmc_client, now) :
          LET sent == get_asset_by_id(sfmc_client, now, id, tokResp, NoDataAnswer).reqs # <<>>
          IN  \E dataResp \in DataAnswers(sent) :
                 LET r == get_asset_by_id(sfmc_client, now, id, tokResp, dataResp)
                 IN  /\ sfmc_client' = r.client
                     /\ last' = Called("get_asset_by_id", id, r)
    /\ UNCHANGED <<now, threads>>

ConnectionStatus ==
    /\ \E tokResp \in AuthAnswers(sfmc_client, now) :
          LET r == connection_status(sfmc_client, now, tokResp)
          IN  /\ sfmc_client' = r.client
              /\ last' = Called("connection_status", <<>>, r)
    /\ UNCHANGED <<now, threads>>

Next ==
    \/ Tick
    \/ GetToken
    \/ InitializeConnection
    \/ SearchAssets
    \/ AdvancedSearch
    \/ GetAssetById
    \/ ConnectionStatus

Spec == Init /\ [][Next]_vars

---------------------------------------------------------------------------
(* The query builders on their own: the parameters of a simple search and   *)
(* the body of an advanced search, as functions of the caller's input.      *)

PageSizes == (-2 .. 53) \cup {999}

PageNumbers == (-2 .. 3)

AssetNames == {"", "x"}

AssetTypes == {"", "y"}

CategoryIds == {None, Some(0), Some(7), Some(12)}

SimpleInputs ==
    [asset_name : AssetNames, asset_type : AssetTypes, page_size : PageSizes,
     page_number : PageNumbers, category_id : CategoryIds]

Pending(op, input) ==
    [op |-> op, input |-> input, ret |-> Text(<<>>), exch |-> <<>>, reqs |-> <<>>]

InitBuild ==
    /\ sfmc_client = None
    /\ now = 0
    /\ threads = NoThreads
    /\ last \in {Pending("simple_input", in) : in \in SimpleInputs}
                \cup {Pending("query_input", q) : q \in QueryStrings}

\* The parameters search_sfmc_assets builds and search_assets sends
BuildSimpleParams ==
    /\ last.op = "simple_input"
    /\ last' = [last EXCEPT
                  !.op = "search_params",
                  !.ret = RequestParams(search_params(last.input.asset_name,
                                                      last.input.asset_type,
                                                      last.input.page_size,
                                                      last.input.page_number,
                                                      last.input.category_id))]
    /\ UNCHANGED <<sfmc_client, now, threads>>

\* The decoded query and the body advanced_asset_search posts
BuildAdvancedQuery ==
    /\ last.op = "query_input"
    /\ last' = [last EXCEPT
                  !.op = "build_query",
                  !.ret = [parsed |-> json_loads(last.input),
                           merged |-> MergeQuery(json_loads(last.input))]]
    /\ UNCHANGED <<sfmc_client, now, threads>>

NextBuild ==
    \/ BuildSimpleParams
    \/ BuildAdvancedQuery

SpecBuild == InitBuild /\ [][NextBuild]_vars

---------------------------------------------------------------------------
(* The result formatting on its own: search_sfmc_assets on a connected     *)
(* client with a cached token, as a function of the raw search response.   *)

RawCounts == {Missing} \cup {Present(n) : n \in (0 .. 12) \cup {100, 101}}

RawPageSizes == {Missing} \cup {Present(n) : n \in (0 .. 5) \cup {50}}

RawItems ==
    {Missing, Present(<<>>), Present(<<AssetFull>>),
     Present(<<AssetFull, AssetSparse>>),
     Present(<<AssetHollow, AssetSparse, AssetFull>>),
     Present(<<AssetSparse, AssetNullNested>>)}

RawBodies ==
    {SearchBody(c, ps, Present(1), items) :
        c \in RawCounts, ps \in RawPageSizes, items \in RawItems}

\* A client as a successful initialize_sfmc_connection at time 0 leaves it
ConnectedClient ==
    initialize_sfmc_connection(
        [subdomain |-> "mcA", client_id |-> "idA", client_secret |-> "secA"],
        0, TokenBody("tokA", Missing)).client

PlainSearch ==
    [asset_name |-> "", asset_type |-> "", page_size |-> 50, page_number |-> 1,
     category_id |-> None]

InitFormat ==
    /\ sfmc_client = ConnectedClient
    /\ now = 0
    /\ threads = NoThreads
    /\ last \in {Pending("raw_response", [kind |-> "ok", body |-> b]) : b \in RawBodies}

\* search_sfmc_assets, the data endpoint answering with the raw response
FormatSearch ==
    /\ last.op = "raw_response"
    /\ LET r == search_sfmc_assets(sfmc_client, now, PlainSearch, NoAuthAnswer, last.input)
       IN  /\ sfmc_client' = r.client
           /\ last' = [op |-> "search_sfmc_assets", input |-> last.input, ret |-> r.ret,
                       exch |-> r.exch, reqs |-> r.reqs]
    /\ UNCHANGED <<now, threads>>

NextFormat == FormatSearch

SpecFormat == InitFormat /\ [][NextFormat]_vars

---------------------------------------------------------------------------
(* Callers inside get_access_token at once.  The method takes no lock, so  *)
(* a caller can be overtaken between its cache check (line 40), the answer *)
(* to its POST (lines 59-62) and its writes to the cache (lines 66-68).    *)

ConcurrentAnswers ==
    {NoAuthAnswer, TokenBody("tokA", ExpiresIn(90)), TokenBody("tokB", ExpiresIn(90))}

\* The clients initialize_sfmc_connection at time 0 can have left: one whose
\* token is already at its expiry, one without a token, one with a good token
ClientsAtStart ==
    {initialize_sfmc_connection(
        [subdomain |-> "mcA", client_id |-> "idA", client_secret |-> "secA"],
        0, resp).client :
        resp \in {TokenBody("tokA", ExpiresIn(60)), NoAuthAnswer, TokenBody("tokA", Missing)}}

InitConcurrent ==
    /\ sfmc_client \in ClientsAtStart
    /\ now = 0
    /\ threads = NoThreads
    /\ last = [op |-> "none", input |-> <<>>, ret |-> Text(<<>>), exch |-> <<>>,
               reqs |-> <<>>]

\* Line 40: the caller reads the cache; it returns the cached token, or goes
\* on to the POST
CheckCache(c) ==
    /\ threads[c].pc = "idle"
    /\ sfmc_client # None
    /\ LET self == sfmc_client[1]
       IN  IF TokenIsValid(self, now)
           THEN /\ threads' = [threads EXCEPT ![c].pc = "done"]
                /\ last' = [op |-> "get_access_token", input |-> c,
                            ret |-> Dict(Success(self.access_token)),
                            exch |-> <<>>, reqs |-> <<>>]
           ELSE /\ threads' = [threads EXCEPT
                                 ![c].pc = "post",
                                 ![c].saw = <<[access_token |-> self.access_token,
                                               token_expiry |-> self.token_expiry]>>]
                /\ UNCHANGED last
    /\ UNCHANGED <<sfmc_client, now>>

\* Lines 59-62: the auth endpoint answers the caller's POST
PostToken(c) ==
    /\ threads[c].pc = "post"
    /\ \E resp \in ConcurrentAnswers :
          threads' = [threads EXCEPT
                        ![c].pc = "store",
                        ![c].resp = resp,
                        ![c].order = 1 + Cardinality({d \in Callers : threads[d].order > 0})]
    /\ UNCHANGED <<sfmc_client, now, last>>

\* Lines 63-86: the caller writes the answer to the cache and returns
StoreToken(c) ==
    /\ threads[c].pc = "store"
    /\ LET self == sfmc_client[1]
           r == AuthExcept(TokenExchange(self, now, threads[c].resp))
       IN  /\ sfmc_client' = Some(r.self)
           /\ threads' = [d \in Callers |->
                            IF d = c
                            THEN [threads[d] EXCEPT !.pc = "done", !.holds = r.ret.success]
                            ELSE [threads[d] EXCEPT
                                    !.holds = IF r.ret.success THEN FALSE ELSE @]]
           /\ last' = [op |-> "get_access_token", input |-> c, ret |-> Dict(r.ret),
                       exch |-> <<[request  |-> AuthRequest(self),
                                   response |-> threads[c].resp,
                                   why      |-> WhyExchange(threads[c].saw[1], now)]>>,
                       reqs |-> <<>>]
    /\ UNCHANGED now

NextConcurrent ==
    \/ Tick
    \/ \E c \in Callers : CheckCache(c)
    \/ \E c \in Callers : PostToken(c)
    \/ \E c \in Callers : StoreToken(c)

SpecConcurrent == InitConcurrent /\ [][NextConcurrent]_vars

---------------------------------------------------------------------------
(* Properties *)

\* The step is a call of the operation op (operations leave the clock alone)
CallOf(op) == now' = now /\ last'.op = op

HasClient == sfmc_client # None

\* A non-empty token is cached and the clock is before its expiry
CacheFresh(c, t) ==
    /\ c.access_token # None
    /\ c.access_token[1] # ""
    /\ c.token_expiry # None
    /\ t < c.token_expiry[1]

\* The cached expiry has been reached
CacheExpired(c, t) == c.token_expiry # None /\ t >= c.token_expiry[1]

\* The expiry a successful exchange answered by resp at time t must cache
ExpiryOf(resp, t) ==
    t + (IF resp.expires_in = <<>> THEN 3600 ELSE resp.expires_in[1].val) - 60

\* A call of get_access_token at or after the cached expiry makes one
\* exchange and, when the exchange succeeds, caches its token and expiry
RefreshOnExpiry ==
    (CallOf("get_access_token") /\ HasClient /\ CacheExpired(sfmc_client[1], now))
        => /\ Len(last'.exch) = 1
           /\ (last'.ret.kind = "dict" /\ last'.ret.value[1].success)
                 => /\ sfmc_client'[1].access_token = <<last'.exch[1].response.access_token[1]>>
                    /\ sfmc_client'[1].token_expiry = <<ExpiryOf(last'.exch[1].response, now)>>
                    /\ last'.ret.value[1].token = sfmc_client'[1].access_token

\* C1 (as amended): a call of get_access_token made while a non-empty token
\* is cached and now < its expiry makes no token exchange, returns the cached
\* token and leaves the cache alone, so the exchange that cached the token is
\* the only one; a call made at now >= expiry makes one exchange and, when
\* that exchange succeeds, replaces the cached token and expiry by its values.
C1_TokenCaching ==
    [][ /\ (CallOf("get_access_token") /\ HasClient /\ CacheFresh(sfmc_client[1], now))
            => /\ last'.exch = <<>>
               /\ last'.ret = Dict(Success(sfmc_client[1].access_token))
               /\ sfmc_client' = sfmc_client
        /\ RefreshOnExpiry ]_vars

\* C1 as stated: any call made while now < the cached expiry makes no exchange
C1_AsStated ==
    [][ /\ (/\ CallOf("get_access_token") /\ HasClient
            /\ sfmc_client[1].token_expiry # None
            /\ now < sfmc_client[1].token_expiry[1])
            => /\ last'.exch = <<>>
               /\ last'.ret = Dict(Success(sfmc_client[1].access_token))
               /\ sfmc_client' = sfmc_client
        /\ RefreshOnExpiry ]_vars

\* C1 witness: a call found the cached token expired and has exchanged it
\* for another one
C1_Witness ==
    /\ now > 0
    /\ last.op = "get_access_token"
    /\ Len(last.exch) = 1
    /\ last.ret.kind = "dict" /\ last.ret.value[1].success
    /\ last.exch[1].why = "expired"
    /\ sfmc_client[1].access_token = <<"tokB">>

---------------------------------------------------------------------------
(* C2 *)

DataOps == {"search_sfmc_assets", "advanced_asset_search", "get_asset_by_id"}

NotInitializedText ==
    <<"[x] SFMC connection not initialized. Please call initialize_sfmc_connection first.">>

ReturnsNotInitialized(l) ==
    /\ l.ret.kind = "text"
    /\ l.ret.text = NotInitializedText
    /\ l.exch = <<>>
    /\ l.reqs = <<>>

\* C2: while initialize_sfmc_connection has never been called (there is no
\* client), a call of search_sfmc_assets, advanced_asset_search or
\* get_asset_by_id returns the not-initialized error, makes no token exchange
\* and no data request, and leaves sfmc_client unset.
C2_NotInitialized ==
    [][ (sfmc_client = <<>> /\ now' = now /\ last'.op \in DataOps)
            => ReturnsNotInitialized(last') /\ sfmc_client' = <<>> ]_vars

\* C2 witness: get_asset_by_id("12345") was called with no client
C2_Witness ==
    /\ sfmc_client = <<>>
    /\ last.op = "get_asset_by_id"
    /\ last.input = "12345"
    /\ ReturnsNotInitialized(last)

---------------------------------------------------------------------------
(* C3 *)

InitFailed(l) ==
    /\ l.op = "initialize_sfmc_connection"
    /\ l.ret.text[1] # "[ok] Successfully connected to SFMC instance: "

\* C3: the operation that follows an initialize_sfmc_connection whose
\* authentication failed returns the not-initialized error and makes no
\* network call (the first case of "every subsequent operation until some
\* initialize_sfmc_connection succeeds").
C3_FailedInitLeavesNoClient ==
    [][ (InitFailed(last) /\ now' = now /\ last'.op \in DataOps)
            => ReturnsNotInitialized(last') ]_vars

---------------------------------------------------------------------------
(* C4 *)

\* seq ends with tail
EndsWith(seq, tail) ==
    /\ Len(seq) >= Len(tail)
    /\ SubSeq(seq, Len(seq) - Len(tail) + 1, Len(seq)) = tail

\* C4: on an initialized client a data request is sent only after the token
\* manager has given a token, and carries the token the client then holds;
\* when the token request of a search_sfmc_assets, advanced_asset_search or
\* get_asset_by_id call fails, the call returns a failure that ends with the
\* error message get_access_token gave and sends no data request.
C4_TokenFirst ==
    [][ (HasClient /\ now' = now /\ last'.op \in DataOps)
            => LET self == sfmc_client[1]
                   asked == last'.exch # <<>>
                   token_result ==
                       get_access_token(self, now, last'.exch[1].response).ret
               IN  /\ (asked /\ ~token_result.success)
                        => /\ last'.reqs = <<>>
                           /\ last'.ret.kind = "text"
                           /\ last'.ret.text[1] \in {"[x] Search failed: ",
                                                     "[x] Advanced search failed: ",
                                                     "[x] Authentication failed: "}
                           /\ token_result.error # <<>>
                           /\ EndsWith(last'.ret.text, token_result.error)
                   /\ last'.reqs # <<>>
                        => /\ Len(last'.reqs) = 1
                           /\ (asked => token_result.success)
                           /\ (~asked => CacheFresh(self, now))
                           /\ last'.reqs[1].request.headers.Authorization
                                 = <<"Bearer ", sfmc_client'[1].access_token>> ]_vars

\* C4 witness: get_asset_by_id on an initialized client whose token request
\* failed on a transport error
C4_Witness ==
    /\ last.op = "get_asset_by_id"
    /\ Len(last.exch) = 1
    /\ last.exch[1].response.kind = "transport"
    /\ last.exch[1].why = "expired"
    /\ last.reqs = <<>>
    /\ last.ret.text = <<"[x] Authentication failed: ", "Authentication failed: ",
                         "ConnectionError">>

---------------------------------------------------------------------------
(* C5 *)

\* The auth endpoint's answer makes the exchange fail
AuthAnswerFails(resp) ==
    \/ resp.kind \in {"transport", "http_error", "bad_json", "json_array"}
    \/ resp.access_token = <<>>

\* The data endpoint's answer is a transport error, a non-2xx status or no JSON
DataAnswerFails(resp) == resp.kind \in {"transport", "http_error", "bad_json"}

\* What the operation returned is a failure with an error message
IsFailure(l) ==
    CASE l.op = "get_access_token" ->
            /\ l.ret.kind = "dict"
            /\ ~l.ret.value[1].success
            /\ Len(l.ret.value[1].error) = 2
      [] l.op = "connection_status" ->
            /\ l.ret.kind = "json"
            /\ ~l.ret.value[1].token_valid
            /\ Len(l.ret.value[1].error) = 2
      [] OTHER ->
            /\ l.ret.kind = "text"
            /\ Len(l.ret.text) >= 2
            /\ l.ret.text[1] \in {"[x] Authentication failed: ",
                                  "[x] Search failed: ",
                                  "[x] Advanced search failed: ",
                                  "[x] Failed to retrieve asset: "}

\* C5: no operation lets an exception out; when the token exchange or the
\* data request of a call fails (transport error, non-2xx status, body that
\* is no JSON object, token answer without access_token), the call returns a
\* failure carrying an error message.
C5_NeverRaises ==
    /\ last.ret.kind # "raised"
    /\ (last.exch # <<>> /\ AuthAnswerFails(last.exch[1].response)) => IsFailure(last)
    /\ (last.reqs # <<>> /\ DataAnswerFails(last.reqs[1].response)) => IsFailure(last)

\* C5 witness: a token answer without access_token, met by get_access_token
C5_Witness ==
    /\ last.op = "get_access_token"
    /\ Len(last.exch) = 1
    /\ last.exch[1].response.kind = "ok"
    /\ last.exch[1].response.access_token = <<>>
    /\ last.ret = Dict([success |-> FALSE, token |-> <<>>,
                        error |-> <<"Unexpected authentication error: ", "KeyError">>])

---------------------------------------------------------------------------
(* C6 *)

CredentialsOf(c) ==
    [subdomain |-> c.subdomain, client_id |-> c.client_id,
     client_secret |-> c.client_secret]

\* The cached token, if any, was obtained with the client's own credentials
OwnToken(c) ==
    /\ c.access_token # <<>> => c.token_from = <<c.client_id>>
    /\ c.token_from \in {<<>>, <<c.client_id>>}

\* C6: only initialize_sfmc_connection changes the credentials of the active
\* client; it leaves a client that holds no token obtained with other
\* credentials; every token exchange is made with the credentials of the
\* active client and every data request carries a token obtained with them.
C6_OnePair ==
    [][ /\ (HasClient /\ last'.op # "initialize_sfmc_connection")
            => /\ sfmc_client' # <<>>
               /\ CredentialsOf(sfmc_client'[1]) = CredentialsOf(sfmc_client[1])
        /\ (now' = now /\ sfmc_client' # <<>>)
            => LET c == sfmc_client'[1]
               IN  /\ OwnToken(c)
                   /\ c.base_url = <<"https://", c.subdomain, ".rest.marketingcloudapis.com">>
                   /\ \A i \in 1..Len(last'.exch) :
                         /\ last'.exch[i].request.json.client_id = c.client_id
                         /\ last'.exch[i].request.json.client_secret = c.client_secret
                         /\ last'.exch[i].request.url[2] = c.subdomain
                   /\ \A i \in 1..Len(last'.reqs) :
                         /\ last'.reqs[i].request.headers.token_from = <<c.client_id>>
                         /\ last'.reqs[i].request.url[2] = c.subdomain
                   /\ (last'.op = "initialize_sfmc_connection")
                         => /\ CredentialsOf(c) = last'.input
                            /\ (last'.exch = <<>> => c.access_token = <<>>) ]_vars

\* C6 witness: after a connection under the first credentials, a data
\* request was sent under the second with a token obtained with them
C6_Witness ==
    /\ sfmc_client # <<>>
    /\ sfmc_client[1].client_id = "idB"
    /\ now > 0
    /\ last.op = "search_sfmc_assets"
    /\ last.exch = <<>>
    /\ Len(last.reqs) = 1
    /\ last.reqs[1].request.headers.token_from = <<"idB">>

---------------------------------------------------------------------------
(* C10 *)

\* The caller's queries that are no JSON, with the parser's message
NotJson == {"not json"}

ParserMessage(q) ==
    CASE q = "not json" -> "Expecting value: line 1 column 1 (char 0)"

\* C10: on an initialized connection, advanced_asset_search of a string that
\* is no JSON returns the invalid-JSON error with the parser's message, makes
\* no token exchange and no data request, and leaves the client as it was.
C10_ParseError ==
    [][ (HasClient /\ now' = now /\ last'.op = "advanced_asset_search"
            /\ last'.input \in NotJson)
            => /\ last'.ret = Text(<<"[x] Invalid JSON query: ", ParserMessage(last'.input)>>)
               /\ last'.exch = <<>>
               /\ last'.reqs = <<>>
               /\ sfmc_client' = sfmc_client ]_vars

\* C10 witness: advanced_asset_search('not json') on a client whose cached
\* token has expired
C10_Witness ==
    /\ sfmc_client # <<>>
    /\ sfmc_client[1].token_expiry # <<>>
    /\ now >= sfmc_client[1].token_expiry[1]
    /\ last.op = "advanced_asset_search"
    /\ last.input = "not json"
    /\ last.ret.text[1] = "[x] Invalid JSON query: "

---------------------------------------------------------------------------
(* C7 *)

\* C7: the built $pagesize is page_size clamped into [1,50] and the built
\* $page is max(page_number, 1), for every page_size and page_number.
C7_Clamping ==
    last.op = "search_params"
        => /\ last.ret["$pagesize"] =
                 (IF last.input.page_size < 1 THEN 1
                  ELSE IF last.input.page_size > 50 THEN 50
                  ELSE last.input.page_size)
           /\ last.ret["$page"] =
                 (IF last.input.page_number < 1 THEN 1 ELSE last.input.page_number)

\* C7 witness: page_size 0 and page_number 0 were built into 1 and 1
C7_Witness ==
    /\ last.op = "search_params"
    /\ last.input.page_size = 0
    /\ last.input.page_number = 0
    /\ last.ret["$pagesize"] = 1
    /\ last.ret["$page"] = 1

---------------------------------------------------------------------------
(* C8 *)

\* The decimal text of the category ids of the model
CategoryText(n) ==
    CASE n = 0 -> <<"0">> [] n = 7 -> <<"7">> [] n = 12 -> <<"1", "2">>

\* The clauses the claim asks for, in the order name, type, category, each
\* followed by the separator
ClausesWanted(in) ==
    (IF in.asset_name # "" THEN <<"name like '", in.asset_name, "'", " and ">> ELSE <<>>)
    \o (IF in.asset_type # ""
        THEN <<"assetType.name eq '", in.asset_type, "'", " and ">> ELSE <<>>)
    \o (IF in.category_id # <<>>
        THEN <<"category.id eq ">> \o CategoryText(in.category_id[1]) \o <<" and ">>
        ELSE <<>>)

\* The filter the claim asks for: the clauses without the last separator
FilterWanted(in) == SubSeq(ClausesWanted(in), 1, Len(ClausesWanted(in)) - 1)

FilterAsClaimed(in, params) ==
    /\ {"$pagesize", "$page", "$orderBy"} \subseteq DOMAIN params
    /\ params["$orderBy"] = "modifiedDate desc"
    /\ ("$filter" \in DOMAIN params) <=> (ClausesWanted(in) # <<>>)
    /\ ("$filter" \in DOMAIN params) => params["$filter"] = FilterWanted(in)

\* C8: the built parameters have a $filter exactly when a name, a type or a
\* category id is given; every given filter, every given category id
\* included, gives one clause, joined by ' and ' in the order name, type,
\* category; $pagesize, $page and $orderBy = 'modifiedDate desc' are there.
C8_FilterBuilt ==
    last.op = "search_params" => FilterAsClaimed(last.input, last.ret)

\* C8 without the category id 0: what the code does
C8_FilterBuiltButForZero ==
    (last.op = "search_params" /\ last.input.category_id # <<0>>)
        => FilterAsClaimed(last.input, last.ret)

---------------------------------------------------------------------------
(* C9 *)

\* C9: the body built from a JSON object is the default body with every
\* top-level key of the input set to the input's value as a whole; page,
\* query and sort absent from the input have their documented defaults.
C9_ShallowMerge ==
    (last.op = "build_query" /\ last.ret.parsed.exc = "" /\ last.ret.parsed.type = "object")
        => LET given == last.ret.parsed.members
               body  == last.ret.merged.query
           IN  /\ last.ret.merged.exc = ""
               /\ DOMAIN body = {"page", "query", "sort"} \cup DOMAIN given
               /\ \A k \in DOMAIN given : body[k] = given[k]
               /\ "page" \notin DOMAIN given
                    => body["page"] = [page |-> 1, pageSize |-> 50]
               /\ "query" \notin DOMAIN given
                    => body["query"] = [property |-> "name", simpleOperator |-> "contains",
                                        value |-> ""]
               /\ "sort" \notin DOMAIN given
                    => body["sort"] = <<[property |-> "modifiedDate", direction |-> "DESC"]>>

\* C9 witness: the body built from {"page":{"page":2,"pageSize":10}}
C9_Witness ==
    /\ last.op = "build_query"
    /\ last.input = "{\"page\":{\"page\":2,\"pageSize\":10}}"
    /\ last.ret.merged.query["page"] = [page |-> 2, pageSize |-> 10]
    /\ last.ret.merged.query["sort"] = <<[property |-> "modifiedDate", direction |-> "DESC"]>>

---------------------------------------------------------------------------
(* C11 *)

\* The raw response the data endpoint gave to the call
RawBody(l) == l.reqs[1].response.body

\* A search that sent its request and got a JSON object back
SearchAnswered(l) ==
    /\ l.op = "search_sfmc_assets"
    /\ Len(l.reqs) = 1
    /\ l.reqs[1].response.kind = "ok"

\* A search that returned the formatted summary
SearchSucceeded(l) == SearchAnswered(l) /\ l.ret.kind = "json"

RawCount(l) == IF RawBody(l).count = <<>> THEN 0 ELSE RawBody(l).count[1]

RawPageSize(l) == IF RawBody(l).pageSize = <<>> THEN 50 ELSE RawBody(l).pageSize[1]

\* ceil(a / b) for a >= 0, b >= 1: the least n with n * b >= a
CeilDiv(a, b) == CHOOSE n \in 0 .. a : n * b >= a /\ \A m \in 0 .. (n - 1) : m * b < a

\* C11: a successful simple search whose raw response has count >= 0 and
\* pageSize >= 1 (0 and 50 when absent) returns a summary with total_found =
\* count, page_size = pageSize and total_pages = ceil(count / pageSize).
C11_TotalPages ==
    (SearchSucceeded(last) /\ RawCount(last) >= 0 /\ RawPageSize(last) >= 1)
        => LET summary == last.ret.value[1].search_summary
           IN  /\ summary.total_found = RawCount(last)
               /\ summary.page_size = RawPageSize(last)
               /\ summary.total_pages = CeilDiv(RawCount(last), RawPageSize(last))
               /\ RawCount(last) = 0 => summary.total_pages = 0

\* C11 witness: count 101 with pageSize 50 gave 3 pages
C11_Witness ==
    /\ SearchSucceeded(last)
    /\ RawBody(last).count = <<101>>
    /\ RawBody(last).pageSize = <<50>>
    /\ last.ret.value[1].search_summary.total_pages = 3

---------------------------------------------------------------------------
(* C12 *)

\* C12: a search whose raw response reports pageSize = 0 still returns the
\* summary, with total_pages computed as if pageSize were 1.
C12_ZeroPageSizeGuarded ==
    (SearchAnswered(last) /\ RawBody(last).pageSize = <<0>>
        /\ RawBody(last).items \in {<<>>, << <<>> >>})
        => /\ last.ret.kind = "json"
           /\ last.ret.value[1].search_summary.total_pages = RawCount(last)

---------------------------------------------------------------------------
(* C13 *)

\* A flat field of a raw item: its value, null when absent or null
FlatWanted(field) == IF field = <<>> \/ field[1] = <<>> THEN <<>> ELSE field[1]

\* A field of a nested object of a raw item: null when the object or the
\* field is absent or null
NestedWanted(field, inner) ==
    IF field = <<>> \/ field[1] = <<>> THEN <<>>
    ELSE FlatWanted(field[1][1][inner])

SummaryWanted(asset) ==
    [id            |-> FlatWanted(asset.id),
     name          |-> FlatWanted(asset.name),
     asset_type    |-> NestedWanted(asset.assetType, "name"),
     created_date  |-> FlatWanted(asset.createdDate),
     modified_date |-> FlatWanted(asset.modifiedDate),
     created_by    |-> NestedWanted(asset.createdBy, "name"),
     modified_by   |-> NestedWanted(asset.modifiedBy, "name"),
     category      |-> NestedWanted(asset.category, "name"),
     status        |-> NestedWanted(asset.status, "name"),
     file_size     |-> NestedWanted(asset.fileProperties, "fileSize")]

RawItemsOf(l) == IF RawBody(l).items = <<>> THEN <<>> ELSE RawBody(l).items[1]

\* Some nested object of the raw item is JSON null
HasNullNested(asset) ==
    \E f \in {asset.assetType, asset.createdBy, asset.modifiedBy, asset.category,
              asset.status, asset.fileProperties} : f = << <<>> >>

BestEffort(l) ==
    /\ l.ret.kind = "json"
    /\ Len(l.ret.value[1].assets) = Len(RawItemsOf(l))
    /\ \A i \in 1 .. Len(RawItemsOf(l)) :
          l.ret.value[1].assets[i] = SummaryWanted(RawItemsOf(l)[i])

\* C13: a search answered with a raw response (pageSize not 0) returns one
\* summary per raw item, in the original order, where every nested object or
\* field that is absent or null gives null; no item fails the response.
C13_BestEffort ==
    (SearchAnswered(last) /\ RawPageSize(last) # 0) => BestEffort(last)

\* C13 without null nested objects: what the code does
C13_BestEffortButForNull ==
    (SearchAnswered(last) /\ RawPageSize(last) # 0
        /\ \A i \in 1 .. Len(RawItemsOf(last)) : ~HasNullNested(RawItemsOf(last)[i]))
        => BestEffort(last)

---------------------------------------------------------------------------
(* C14 *)

\* The operations that ask the active client for a token: all of them but
\* initialize_sfmc_connection (which asks a new client) and an
\* advanced_asset_search whose query is no JSON
AsksActiveClient(l) ==
    \/ l.op \in {"get_access_token", "connection_status", "search_sfmc_assets",
                 "get_asset_by_id"}
    \/ l.op = "advanced_asset_search" /\ l.input \notin NotJson

\* The auth endpoint's answer makes the exchange succeed
AuthAnswerSucceeds(resp) ==
    /\ resp.kind = "ok"
    /\ resp.access_token # <<>>
    /\ resp.expires_in = <<>> \/ resp.expires_in[1].numeric

\* Every successful exchange of the step has left its token and the expiry
\* now + expires_in - 60 in the cache
ExchangeCached ==
    \A i \in 1 .. Len(last'.exch) :
        AuthAnswerSucceeds(last'.exch[i].response)
            => /\ sfmc_client' # <<>>
               /\ sfmc_client'[1].access_token = last'.exch[i].response.access_token
               /\ sfmc_client'[1].token_expiry = <<ExpiryOf(last'.exch[i].response, now)>>

\* A token and an expiry are cached and the clock is before the expiry
CacheBeforeExpiry(c, t) ==
    /\ c.access_token # <<>>
    /\ c.token_expiry # <<>>
    /\ t < c.token_expiry[1]

\* C14 (as amended): a successful exchange at time now caches the answer's
\* access_token and the expiry now + expires_in - 60 (expires_in 3600 when
\* absent); a call uses the cache, making no exchange, exactly when a
\* non-empty token is cached and now < the cached expiry, so no token is
\* reused at or after its expiry.
C14_ExpiryBuffer ==
    [][ (now' = now)
            => /\ ExchangeCached
               /\ (HasClient /\ AsksActiveClient(last'))
                    => (last'.exch = <<>> <=> CacheFresh(sfmc_client[1], now)) ]_vars

\* C14 as stated: the cache is used exactly when now < the cached expiry
C14_AsStated ==
    [][ (now' = now)
            => /\ ExchangeCached
               /\ (HasClient /\ AsksActiveClient(last'))
                    => (last'.exch = <<>> <=> CacheBeforeExpiry(sfmc_client[1], now)) ]_vars

\* C14 witness: get_asset_by_id found the cached token at its expiry,
\* exchanged it, and the answer without expires_in was cached for 3540 s
C14_Witness ==
    /\ now > 0
    /\ last.op = "get_asset_by_id"
    /\ Len(last.exch) = 1
    /\ last.exch[1].why = "expired"
    /\ last.exch[1].response.expires_in = <<>>
    /\ last.exch[1].response.access_token = <<"tokA">>
    /\ sfmc_client[1].token_expiry = <<now + 3540>>
    /\ Len(last.reqs) = 1

---------------------------------------------------------------------------
(* C15 *)

\* C15: one call of search_sfmc_assets, advanced_asset_search or
\* get_asset_by_id makes at most one token exchange and at most one data
\* request; one call of get_access_token, initialize_sfmc_connection or
\* connection_status makes at most one token exchange and no data request;
\* no request, failed or not, is sent twice in one call.
C15_SingleAttempt ==
    /\ Len(last.exch) <= 1
    /\ Len(last.reqs) <= 1
    /\ last.op \in {"get_access_token", "initialize_sfmc_connection", "connection_status"}
          => last.reqs = <<>>

\* C15 witness: a search whose token exchange succeeded and whose data
\* request was answered by a non-2xx status: one exchange, one request
C15_Witness ==
    /\ last.op = "search_sfmc_assets"
    /\ Len(last.exch) = 1
    /\ Len(last.reqs) = 1
    /\ last.reqs[1].response.kind = "http_error"
    /\ last.ret.kind = "text"
    /\ last.ret.text[1] = "[x] Search failed: "

---------------------------------------------------------------------------
(* C16 *)

\* The caller has found the cache unusable and has not yet written its answer
Exchanging(c) == threads[c].pc \in {"post", "store"}

\* No two callers are exchanging after having read the same cache
OneExchangeAtATime ==
    \A c, d \in Callers :
        (c # d /\ Exchanging(c) /\ Exchanging(d)) => threads[c].saw # threads[d].saw

\* A caller that caches its token does not replace the token of a POST that
\* was answered after its own
NoOlderOverwrite ==
    \A c \in Callers :
        (threads[c].pc = "store" /\ threads'[c].pc = "done" /\ threads'[c].holds)
            => ~ \E d \in Callers : threads[d].holds /\ threads[d].order > threads[c].order

\* C16: the check-exchange-write of get_access_token is mutually exclusive:
\* two callers never both read the same expired or absent token and both
\* exchange it, and the cached token is never replaced by the token of an
\* exchange older than the one that cached it.
C16_MutualExclusion == [][OneExchangeAtATime' /\ NoOlderOverwrite]_vars

\* C16, second half alone
C16_NoOlderOverwrite == [][NoOlderOverwrite]_vars

---------------------------------------------------------------------------
(* C17 *)

\* The step made a token exchange that failed on a transport error, a non-2xx
\* status or an answer without access_token
ExchangeFailed(l) == l.exch # <<>> /\ AuthAnswerFails(l.exch[1].response)

\* C17: a token exchange that fails (transport error, non-2xx status, answer
\* without access_token) leaves the cached token and expiry of the client as
\* they were before the call (none, for the client a failed
\* initialize_sfmc_connection has just made); the token that was expired
\* stays cached and expired, and the get_access_token that follows makes an
\* exchange again.
C17_FailedExchangeKeepsCache ==
    [][ (now' = now)
            => /\ (HasClient /\ AsksActiveClient(last') /\ ExchangeFailed(last'))
                    => /\ sfmc_client' = sfmc_client
                       /\ ~CacheFresh(sfmc_client'[1], now)
               /\ (last'.op = "initialize_sfmc_connection" /\ ExchangeFailed(last'))
                    => /\ sfmc_client'[1].access_token = <<>>
                       /\ sfmc_client'[1].token_expiry = <<>>
               /\ (HasClient /\ ExchangeFailed(last) /\ last'.op = "get_access_token")
                    => Len(last'.exch) = 1 ]_vars

\* C17 witness: get_access_token found the token expired, the exchange met a
\* non-2xx status, and the expired token is still cached
C17_Witness ==
    /\ last.op = "get_access_token"
    /\ Len(last.exch) = 1
    /\ last.exch[1].why = "expired"
    /\ last.exch[1].response.kind = "http_error"
    /\ sfmc_client[1].access_token = <<"tokA">>
    /\ sfmc_client[1].token_expiry # <<>>
    /\ now >= sfmc_client[1].token_expiry[1]

---------------------------------------------------------------------------
(* C18 *)

\* C18: when a client with a valid cached token exists and
\* initialize_sfmc_connection is called with credentials whose authentication
\* fails, the global client is afterwards a new client with the new
\* credentials and no usable token (the previous client and its token are
\* gone), and the operation that follows asks for a token with the new
\* credentials.
C18_ReplacedBeforeAuth ==
    [][ (now' = now)
            => /\ (HasClient /\ CacheFresh(sfmc_client[1], now) /\ InitFailed(last'))
                    => /\ sfmc_client' # <<>>
                       /\ sfmc_client' # sfmc_client
                       /\ CredentialsOf(sfmc_client'[1]) = last'.input
                       /\ sfmc_client'[1].token_expiry = <<>>
                       /\ sfmc_client'[1].access_token
                             \in {<<>>, last'.exch[1].response.access_token}
                       /\ ~CacheFresh(sfmc_client'[1], now)
               /\ (InitFailed(last) /\ AsksActiveClient(last'))
                    => /\ Len(last'.exch) = 1
                       /\ last'.exch[1].request.json.client_id = last.input.client_id
                       /\ last'.exch[1].request.json.client_secret = last.input.client_secret
                       /\ last'.exch[1].request.url[2] = last.input.subdomain ]_vars

\* C18 witness: a client of the first credentials with a valid token was
\* replaced by a client of the second credentials whose authentication failed
C18_Witness ==
    /\ InitFailed(last)
    /\ last.replaced # <<>>
    /\ last.replaced[1].client_id = "idA"
    /\ CacheFresh(last.replaced[1], now)
    /\ last.input.client_id = "idB"
    /\ sfmc_client[1].client_id = "idB"
    /\ sfmc_client[1].access_token = <<>>

---------------------------------------------------------------------------
(* C19 *)

\* The token request of the step succeeded: the cache was used, or the
\* exchange was answered with a token
TokenGiven(l) == l.exch = <<>> \/ AuthAnswerSucceeds(l.exch[1].response)

\* C19: connection_status with no client returns the no-connection message
\* and makes no network call; with a client whose cached token is valid it
\* makes no network call and leaves token and expiry alone; with a client
\* whose token is absent (or empty) or expired it makes one token exchange
\* and, when the exchange succeeds, caches its token and expiry; it reports
\* token_valid = true exactly when its token request succeeded.
C19_StatusNotPure ==
    [][ CallOf("connection_status")
            => /\ sfmc_client = <<>>
                    => /\ last'.ret = Text(<<"[x] No SFMC connection established">>)
                       /\ last'.exch = <<>> /\ last'.reqs = <<>>
                       /\ sfmc_client' = <<>>
               /\ (HasClient /\ CacheFresh(sfmc_client[1], now))
                    => /\ last'.exch = <<>> /\ last'.reqs = <<>>
                       /\ sfmc_client' = sfmc_client
               /\ (HasClient /\ ~CacheFresh(sfmc_client[1], now))
                    => /\ Len(last'.exch) = 1 /\ last'.reqs = <<>>
                       /\ AuthAnswerSucceeds(last'.exch[1].response)
                            => /\ sfmc_client'[1].access_token
                                     = last'.exch[1].response.access_token
                               /\ sfmc_client'[1].token_expiry
                                     = <<ExpiryOf(last'.exch[1].response, now)>>
               /\ HasClient
                    => /\ last'.ret.kind = "json"
                       /\ last'.ret.value[1].token_valid <=> TokenGiven(last')
                       /\ last'.ret.value[1].subdomain = sfmc_client[1].subdomain ]_vars

\* C19 witness: connection_status found the token expired, exchanged it for
\* another one and reported token_valid = true
C19_Witness ==
    /\ last.op = "connection_status"
    /\ Len(last.exch) = 1
    /\ last.exch[1].why = "expired"
    /\ last.exch[1].response.access_token = <<"tokB">>
    /\ sfmc_client[1].access_token = <<"tokB">>
    /\ last.ret.kind = "json"
    /\ last.ret.value[1].token_valid

====
